---- MODULE Spec2Model ----
(***************************************************************************)
(* A state-machine model of dripline/service.go: the AMQP service's        *)
(* start-up (runAmqpService), its Event Router loop, the Subscribe*        *)
(* functions, Stop, and the per-call reply correlator of SendRequest.       *)
(*                                                                         *)
(* Go channels are sequences with a capacity; a send on a full channel     *)
(* blocks, which the model renders as a program position whose next step   *)
(* is enabled only when the channel has room.  Broker outcomes (a failing  *)
(* dial, declare, bind or consume) are inputs of the actions.              *)
(***************************************************************************)
EXTENDS Integers, Sequences, FiniteSets, TLC

(***************************************************************************)
(* Bounds of the model.                                                    *)
(***************************************************************************)
\* number of SendRequest calls
MaxCalls == 2
\* deliveries the broker hands to the consumer of one reply queue
MaxQueue == 1
\* deliveries the broker hands to the consumers of the receive queue
MaxDeliver == 2
\* capacity of the per-kind channels (100 in ServiceDefaults, scaled down)
ChanCap == 1
\* number of Subscribe* calls
MaxSubs == 2
\* number of Stop calls
MaxStops == 1
\* number of SendReply / SendAlert / SendInfo calls
MaxSends == 1

(***************************************************************************)
(* Program constants.                                                      *)
(***************************************************************************)
\* DoneSignal: make(chan bool, 1)
DoneSignalCap == 1
\* stopQueue: make(chan bool, 5)
StopQueueCap == 5
\* replyChanFull := make(chan Reply, 1)
ReplyChanCap == 1

Calls == 1..MaxCalls
\* a Request's CorrId: 0 is the empty string, the others are caller-chosen ids
NoCorr == 0
CorrIds == 0..MaxCalls
\* replyTimeout: non-positive values wait forever
Timeouts == {-1, 0, 1}
OutKinds == {"request", "reply", "alert", "info"}
InKinds == {"request", "alert", "info"}
\* what a delivery's body decodes to; "garbage" does not decode
BodyKinds == {"request", "reply", "alert", "info", "garbage"}
SetupOutcomes == {"ok", "chanErr", "queueErr"}
\* the initial primary channel and the one a re-setup opens
PrimaryChans == {1, 2}
\* consumers: 0 is the receive queue's, c > 0 the reply queue's of call c
Consumers == 0..MaxCalls
RequestOutcomes == {"ok", "chanErr", "declareErr", "bindErr", "consumeErr"}

VARIABLES
  \* ---- AmqpService fields
  Connected,          \* service.Connected
  connection,         \* service.connection: "nil", "open" or "closed"
  channel,            \* service.channel: 0 is nil, else the id of a primary channel
  DoneSignal,         \* service.DoneSignal, capacity 1
  stopQueue,          \* service.stopQueue, capacity 5
  subscriptionCount,  \* service.Receiver.subscriptionCount
  messageQueue,       \* service.Receiver.messageQueue: 0 is nil, else a stream id
  Receiver,           \* the inbound RequestChan / AlertChan / InfoChan, by kind
  Sender,             \* the outbound requestChan / replyChan / alertChan / infoChan
  \* ---- the goroutine of runAmqpService and the caller of StartService
  rpc,                \* position of runAmqpService
  rq,                 \* the delivery stream the router's select waits on
  rmsg,               \* the delivery the router is handling (NoMsg if none)
  deferChan,          \* the channel `defer service.channel.Close()` captured
  exitReason,         \* which select case left the loop
  starter,            \* position of the StartService caller
  \* ---- broker side
  chanState,          \* primary channels opened on the connection, by id
  queueDeclared,      \* the receive queue exists on the broker
  bindings,           \* exchanges the receive queue is bound to
  streams,            \* consumer delivery streams of the receive queue, by id
  connCloseChan,      \* NotifyClose feed of the connection
  channelCancelChan,  \* NotifyCancel feed of the channel
  channelCloseChan,   \* NotifyClose feed of the channel
  notifyChan,         \* the channel the two channel feeds are registered on
  wire,               \* requests published and not yet answered
  nextUuid,           \* number of uuid.New() results handed out
  \* ---- callers of Subscribe*, Stop, SendReply/SendAlert/SendInfo
  subpc,              \* position of the Subscribe* caller
  subRet,             \* what its last call returned
  nSubs,              \* Subscribe* calls made
  nStops,             \* Stop calls made
  nSends,             \* SendReply/SendAlert/SendInfo calls made
  \* ---- one record per SendRequest call
  cpc,                \* position of the SendRequest caller
  cret,               \* what SendRequest returned: (replyChan, e)
  tpc,                \* position of the call's goroutine
  creq,               \* the request: its CorrId and the replyTimeout
  rchan,              \* the call's replyChannel: "none", "open", "closed"
  qname,              \* the broker-assigned reply queue name (0: none)
  amqpReplyChan,      \* deliveries waiting on the call's consumer
  replyChanFull,      \* the result channel, capacity 1
  timer,              \* time.After(replyTimeout): "off", "armed", "fired"
  cmsg,               \* amqpMessage of the goroutine (NoMsg if none)
  \* ---- history, read only by the properties
  teardownLog,        \* the router's exit steps, in order
  doneLog,            \* every value ever sent on DoneSignal
  dials,              \* number of amqp.Dial calls
  brokerCalls,        \* QueueBind and Consume calls on the primary channel
  delivered,          \* deliveries the broker handed to each consumer
  acks                \* Ack calls, by consumer

svcVars == <<Connected, connection, channel, DoneSignal, stopQueue,
             subscriptionCount, messageQueue, Receiver, Sender>>
runVars == <<rpc, rq, rmsg, deferChan, exitReason, starter>>
brokerVars == <<chanState, queueDeclared, bindings, streams, connCloseChan,
                channelCancelChan, channelCloseChan, notifyChan, wire, nextUuid>>
callerVars == <<subpc, subRet, nSubs, nStops, nSends>>
reqVars == <<cpc, cret, tpc, creq, rchan, qname, amqpReplyChan, replyChanFull,
             timer, cmsg>>
histVars == <<teardownLog, doneLog, dials, brokerCalls, delivered, acks>>
vars == <<svcVars, runVars, brokerVars, callerVars, reqVars, histVars>>

(***************************************************************************)
(* Messages.  A message is a record of its kind, correlation id, reply-to  *)
(* routing key, return code and payload; a delivery is a message as it     *)
(* arrives.  The payload of call c's request is c, a reply's payload is    *)
(* that of the request it answers, every other payload is 0.               *)
(***************************************************************************)
Msg(k, corr, replyTo, rc, body) ==
  [kind |-> k, corr |-> corr, replyTo |-> replyTo, rc |-> rc, body |-> body]

\* the return code of a synthesized timeout Reply
RCErrDripTimeout == "timeout"

\* PrepareReplyToRequest(request, retcode, message, senderInfo): the Reply
\* answers `request`, so it carries the request's correlation id.
PrepareReplyToRequest(request, retcode) ==
  Msg("reply", request.corr, 0, retcode, 0)

\* DecodeAndHandle(delivery, onRequest, onReply, onAlert, onInfo): the handler
\* of the decoded kind is called, exactly one of the four; a body that does
\* not decode calls none and returns an error.
DecodeError(delivery) == delivery.kind = "garbage"
DecodedKind(delivery) == delivery.kind

\* uuid.New(): a fresh id, different from every caller-chosen one
Uuid(n) == MaxCalls + 1 + n

Room(ch, cap) == Len(ch) < cap

\* (mutant) the delivery is not acknowledged
AckSkipped(a, c) == a

\* amqpMessage.Ack(false) on a delivery of consumer c
Ack(a, c) == [a EXCEPT ![c] = @ + 1]

NoMsg == Msg("none", 0, 0, "none", 0)

(***************************************************************************)
(* ServiceDefaults: the state after construction.                          *)
(***************************************************************************)
Init ==
  /\ Connected = FALSE
  /\ connection = "nil"
  /\ channel = 0
  /\ DoneSignal = <<>>
  /\ stopQueue = <<>>
  /\ subscriptionCount = 0
  /\ messageQueue = 0
  /\ Receiver = [k \in InKinds |-> <<>>]
  /\ Sender = [k \in OutKinds |-> <<>>]
  /\ rpc = "unstarted"
  /\ rq = 0
  /\ rmsg = NoMsg
  /\ deferChan = 0
  /\ exitReason = "none"
  /\ starter = "idle"
  /\ chanState = [i \in PrimaryChans |-> "unopened"]
  /\ queueDeclared = FALSE
  /\ bindings = {}
  /\ streams = <<>>
  /\ connCloseChan = "empty"
  /\ channelCancelChan = "empty"
  /\ channelCloseChan = "empty"
  /\ notifyChan = 0
  /\ wire = {}
  /\ nextUuid = 0
  /\ subpc = "idle"
  /\ subRet = "none"
  /\ nSubs = 0
  /\ nStops = 0
  /\ nSends = 0
  /\ cpc = [c \in Calls |-> "idle"]
  /\ cret = [c \in Calls |-> "none"]
  /\ tpc = [c \in Calls |-> "none"]
  /\ creq = [c \in Calls |-> [corr |-> NoCorr, timeout |-> 0, broker |-> "none"]]
  /\ rchan = [c \in Calls |-> "none"]
  /\ qname = [c \in Calls |-> 0]
  /\ amqpReplyChan = [c \in Calls |-> <<>>]
  /\ replyChanFull = [c \in Calls |-> <<>>]
  /\ timer = [c \in Calls |-> "off"]
  /\ cmsg = [c \in Calls |-> NoMsg]
  /\ teardownLog = <<>>
  /\ doneLog = <<>>
  /\ dials = 0
  /\ brokerCalls = [bind |-> 0, consume |-> 0]
  /\ delivered = [c \in Consumers |-> 0]
  /\ acks = [c \in Consumers |-> 0]

(***************************************************************************)
(* StartService and the start-up part of runAmqpService.                   *)
(***************************************************************************)
\* go runAmqpService(service)
StartService ==
  /\ starter = "idle"
  /\ rpc = "unstarted"
  /\ starter' = "waiting"
  /\ rpc' = "dial"
  /\ UNCHANGED <<svcVars, rq, rmsg, deferChan, exitReason, brokerVars,
                 callerVars, reqVars, histVars>>

\* isDone := <-service.DoneSignal; the call returns in both cases
StartServiceReturn ==
  /\ starter = "waiting"
  /\ DoneSignal # <<>>
  /\ starter' = IF Head(DoneSignal) THEN "failed" ELSE "started"
  /\ DoneSignal' = Tail(DoneSignal)
  /\ UNCHANGED <<Connected, connection, channel, stopQueue, subscriptionCount,
                 messageQueue, Receiver, Sender, rpc, rq, rmsg, deferChan,
                 exitReason, brokerVars, callerVars, reqVars, histVars>>

\* what StartService hands back to its caller: after `if isDone` both branches
\* return, the method without a result and the constructor with the handle
StartServiceResult(isDone) == IF isDone THEN "service" ELSE "service"

\* the handle is in its callers' hands once StartService has returned
Started == starter \in {"started", "failed"}

\* amqp.Dial, and once more after a failure; `ok` is the broker's answer
Dial(ok) ==
  /\ rpc = "dial"
  /\ dials' = dials + 1
  /\ IF ok
       THEN /\ connection' = "open"
            /\ Connected' = TRUE
            /\ rpc' = "setup"
            /\ UNCHANGED <<DoneSignal, doneLog>>
       ELSE IF dials = 0
         THEN /\ rpc' = "dial"
              /\ UNCHANGED <<connection, Connected, DoneSignal, doneLog>>
         ELSE /\ Room(DoneSignal, DoneSignalCap)
              /\ DoneSignal' = Append(DoneSignal, TRUE)
              /\ doneLog' = Append(doneLog, TRUE)
              /\ rpc' = "returned"
              /\ UNCHANGED <<connection, Connected>>
  /\ UNCHANGED <<channel, stopQueue, subscriptionCount, messageQueue, Receiver,
                 Sender, rq, rmsg, deferChan, exitReason, starter, brokerVars,
                 callerVars, reqVars, teardownLog, brokerCalls, delivered, acks>>

\* where channelSetupFunc returns to: the start-up, or the channel-cancel case
AfterSetup == IF exitReason = "channelCancel" THEN "exiting" ELSE "signal"

NewChannel == Cardinality({i \in PrimaryChans : chanState[i] # "unopened"}) + 1

\* channelSetupFunc, up to its call of beginConsuming: connection.Channel()
\* and QueueDeclare of the receive queue
SetupOpen(o) ==
  /\ rpc = "setup"
  /\ connection # "open" => o = "chanErr"
  /\ NewChannel \in PrimaryChans
  /\ IF o = "chanErr"
       THEN /\ rpc' = "setupReport"
            /\ UNCHANGED <<channel, chanState, queueDeclared>>
       ELSE /\ channel' = NewChannel
            /\ chanState' = [chanState EXCEPT ![NewChannel] = "open"]
            /\ IF o = "queueErr"
                 THEN /\ rpc' = "setupReport"
                      /\ UNCHANGED queueDeclared
                 ELSE /\ rpc' = "setupArm"
                      /\ queueDeclared' = TRUE
  /\ UNCHANGED <<Connected, connection, DoneSignal, stopQueue,
                 subscriptionCount, messageQueue, Receiver, Sender, rq, rmsg,
                 deferChan, exitReason, starter, bindings, streams,
                 connCloseChan, channelCancelChan, channelCloseChan,
                 notifyChan, wire, nextUuid, callerVars, reqVars, histVars>>

\* the three ExchangeDeclare calls, NotifyCancel and NotifyClose
SetupExchanges(ok) ==
  /\ rpc = "setupExchanges"
  /\ chanState[channel] # "open" => ~ok
  /\ IF ok
       THEN /\ notifyChan' = channel
            /\ channelCancelChan' = "empty"
            /\ channelCloseChan' = "empty"
            /\ rpc' = AfterSetup
       ELSE /\ rpc' = "setupReport"
            /\ UNCHANGED <<notifyChan, channelCancelChan, channelCloseChan>>
  /\ UNCHANGED <<svcVars, rq, rmsg, deferChan, exitReason, starter, chanState,
                 queueDeclared, bindings, streams, connCloseChan, wire,
                 nextUuid, callerVars, reqVars, histVars>>

\* service.DoneSignal <- true of a failed channelSetupFunc
SetupReport ==
  /\ rpc = "setupReport"
  /\ Room(DoneSignal, DoneSignalCap)
  /\ DoneSignal' = Append(DoneSignal, TRUE)
  /\ doneLog' = Append(doneLog, TRUE)
  /\ rpc' = AfterSetup
  /\ UNCHANGED <<Connected, connection, channel, stopQueue, subscriptionCount,
                 messageQueue, Receiver, Sender, rq, rmsg, deferChan,
                 exitReason, starter, brokerVars, callerVars, reqVars,
                 teardownLog, dials, brokerCalls, delivered, acks>>

\* defer service.channel.Close(); service.DoneSignal <- false; the loop's
\* select is entered with the stream handle of that moment
Signal ==
  /\ rpc = "signal"
  /\ Room(DoneSignal, DoneSignalCap)
  /\ DoneSignal' = Append(DoneSignal, FALSE)
  /\ doneLog' = Append(doneLog, FALSE)
  /\ deferChan' = channel
  /\ rpc' = "running"
  /\ rq' = messageQueue
  /\ UNCHANGED <<Connected, connection, channel, stopQueue, subscriptionCount,
                 messageQueue, Receiver, Sender, rmsg, exitReason, starter,
                 brokerVars, callerVars, reqVars, teardownLog, dials,
                 brokerCalls, delivered, acks>>

(***************************************************************************)
(* beginConsuming, called by Subscribe* and by channelSetupFunc.           *)
(***************************************************************************)
\* Consume on the receive queue: a fresh delivery stream on success
ConsumeOk ==
  /\ streams' = Append(streams, [chan |-> channel, q |-> <<>>, live |-> TRUE])
  /\ messageQueue' = Len(streams) + 1
  /\ brokerCalls' = [brokerCalls EXCEPT !.consume = @ + 1]

ConsumeFails ==
  /\ brokerCalls' = [brokerCalls EXCEPT !.consume = @ + 1]
  /\ UNCHANGED <<streams, messageQueue>>

\* the broker refuses every call on a channel that is not open
ChannelOpen == channel # 0 /\ chanState[channel] = "open"

\* (mutant) beginConsuming does not look at the count
NoSubscriptionsSkipped == FALSE

\* if service.Receiver.subscriptionCount == 0
NoSubscriptions == subscriptionCount = 0

\* beginConsuming as channelSetupFunc calls it
SetupArm(consumeOk) ==
  /\ rpc = "setupArm"
  /\ ~ChannelOpen => ~consumeOk
  /\ IF NoSubscriptions
       THEN /\ rpc' = "setupExchanges"
            /\ UNCHANGED <<streams, messageQueue, brokerCalls>>
       ELSE IF consumeOk
         THEN ConsumeOk /\ rpc' = "setupSentinel"
         ELSE ConsumeFails /\ rpc' = "setupArmReport"
  /\ UNCHANGED <<Connected, connection, channel, DoneSignal, stopQueue,
                 subscriptionCount, Receiver, Sender, rq, rmsg, deferChan,
                 exitReason, starter, chanState, queueDeclared, bindings,
                 connCloseChan, channelCancelChan, channelCloseChan,
                 notifyChan, wire, nextUuid, callerVars, reqVars,
                 teardownLog, doneLog, dials, delivered, acks>>

\* beginConsuming's service.DoneSignal <- true, on the router's goroutine
SetupArmReport ==
  /\ rpc = "setupArmReport"
  /\ Room(DoneSignal, DoneSignalCap)
  /\ DoneSignal' = Append(DoneSignal, TRUE)
  /\ doneLog' = Append(doneLog, TRUE)
  /\ rpc' = "setupExchanges"
  /\ UNCHANGED <<Connected, connection, channel, stopQueue, subscriptionCount,
                 messageQueue, Receiver, Sender, rq, rmsg, deferChan,
                 exitReason, starter, brokerVars, callerVars, reqVars,
                 teardownLog, dials, brokerCalls, delivered, acks>>

\* beginConsuming's service.stopQueue <- false, on the router's goroutine
SetupSentinel ==
  /\ rpc = "setupSentinel"
  /\ Room(stopQueue, StopQueueCap)
  /\ stopQueue' = Append(stopQueue, FALSE)
  /\ rpc' = "setupExchanges"
  /\ UNCHANGED <<Connected, connection, channel, DoneSignal,
                 subscriptionCount, messageQueue, Receiver, Sender, rq, rmsg,
                 deferChan, exitReason, starter, brokerVars, callerVars,
                 reqVars, histVars>>

(***************************************************************************)
(* SubscribeToRequests / SubscribeToAlerts / SubscribeToInfos.             *)
(***************************************************************************)
\* Sender.RequestExchangeName, AlertExchangeName, InfoExchangeName
ExchangeName(k) ==
  CASE k = "request" -> "requests"
    [] k = "alert" -> "alerts"
    [] k = "info" -> "requests"

\* (mutant) the connection test of Subscribe* is skipped
NotConnectedSkipped == FALSE

\* if service.Connected == false
NotConnected == Connected = FALSE

\* SubscribeTo<k>(routingKey) up to the first channel send of beginConsuming.
\* A caller holding a connected service holds a started one with a channel.
Subscribe(k, bindOk, consumeOk) ==
  /\ subpc = "idle"
  /\ nSubs < MaxSubs
  /\ Connected => (Started /\ channel # 0)
  /\ nSubs' = nSubs + 1
  /\ IF NotConnected
       THEN /\ subRet' = "notConnected"
            /\ UNCHANGED <<subpc, subscriptionCount, bindings, streams,
                           messageQueue, brokerCalls>>
       ELSE /\ (~ChannelOpen \/ ~queueDeclared) => (~bindOk /\ ~consumeOk)
            /\ IF ~bindOk
                 THEN /\ subRet' = "bindErr"
                      /\ brokerCalls' = [brokerCalls EXCEPT !.bind = @ + 1]
                      /\ UNCHANGED <<subpc, subscriptionCount, bindings,
                                     streams, messageQueue>>
                 ELSE /\ bindings' = bindings \cup {ExchangeName(k)}
                      /\ subscriptionCount' = subscriptionCount + 1
                      /\ subRet' = "pending"
                      /\ streams' = IF consumeOk
                           THEN Append(streams, [chan |-> channel, q |-> <<>>, live |-> TRUE])
                           ELSE streams
                      /\ messageQueue' = IF consumeOk THEN Len(streams) + 1
                                         ELSE messageQueue
                      /\ brokerCalls' = [bind |-> brokerCalls.bind + 1,
                                         consume |-> brokerCalls.consume + 1]
                      /\ subpc' = IF consumeOk THEN "sentinel" ELSE "report"
  /\ UNCHANGED <<Connected, connection, channel, DoneSignal, stopQueue,
                 Receiver, Sender, runVars, chanState, queueDeclared,
                 connCloseChan, channelCancelChan, channelCloseChan,
                 notifyChan, wire, nextUuid, nStops, nSends, reqVars,
                 teardownLog, doneLog, dials, delivered, acks>>

\* beginConsuming's service.DoneSignal <- true, then Subscribe* returns nil
SubscribeReport ==
  /\ subpc = "report"
  /\ Room(DoneSignal, DoneSignalCap)
  /\ DoneSignal' = Append(DoneSignal, TRUE)
  /\ doneLog' = Append(doneLog, TRUE)
  /\ subpc' = "idle"
  /\ subRet' = "ok"
  /\ UNCHANGED <<Connected, connection, channel, stopQueue, subscriptionCount,
                 messageQueue, Receiver, Sender, runVars, brokerVars, nSubs,
                 nStops, nSends, reqVars, teardownLog, dials, brokerCalls,
                 delivered, acks>>

\* beginConsuming's service.stopQueue <- false, then Subscribe* returns nil
SubscribeSentinel ==
  /\ subpc = "sentinel"
  /\ Room(stopQueue, StopQueueCap)
  /\ stopQueue' = Append(stopQueue, FALSE)
  /\ subpc' = "idle"
  /\ subRet' = "ok"
  /\ UNCHANGED <<Connected, connection, channel, DoneSignal,
                 subscriptionCount, messageQueue, Receiver, Sender, runVars,
                 brokerVars, nSubs, nStops, nSends, reqVars, histVars>>

(***************************************************************************)
(* Stop, SendReply, SendAlert, SendInfo.                                   *)
(***************************************************************************)
\* service.stopQueue <- true
Stop ==
  /\ Started
  /\ nStops < MaxStops
  /\ Room(stopQueue, StopQueueCap)
  /\ stopQueue' = Append(stopQueue, TRUE)
  /\ nStops' = nStops + 1
  /\ UNCHANGED <<Connected, connection, channel, DoneSignal,
                 subscriptionCount, messageQueue, Receiver, Sender, runVars,
                 brokerVars, subpc, subRet, nSubs, nSends, reqVars, histVars>>

\* service.Sender.<k>Chan <- toSend, for k reply, alert or info
Send(k) ==
  /\ Started
  /\ k # "request"
  /\ nSends < MaxSends
  /\ Room(Sender[k], ChanCap)
  /\ Sender' = [Sender EXCEPT ![k] = Append(@, Msg(k, NoCorr, 0, "ok", 0))]
  /\ nSends' = nSends + 1
  /\ UNCHANGED <<Connected, connection, channel, DoneSignal, stopQueue,
                 subscriptionCount, messageQueue, Receiver, runVars,
                 brokerVars, subpc, subRet, nSubs, nStops, reqVars, histVars>>

(***************************************************************************)
(* The Event Router: the select of amqpLoop, one action per case.  Each    *)
(* iteration evaluates service.Receiver.messageQueue anew, so an action    *)
(* that continues the loop ends by reading the handle into rq.             *)
(***************************************************************************)
\* (mutant) a false value on the control channel does not restart the select
RouterControlKeepsHandle ==
  /\ rpc = "running"
  /\ stopQueue # <<>>
  /\ stopQueue' = Tail(stopQueue)
  /\ IF Head(stopQueue)
       THEN /\ rpc' = "exiting"
            /\ exitReason' = "stop"
       ELSE UNCHANGED <<rpc, exitReason>>
  /\ UNCHANGED <<Connected, connection, channel, DoneSignal,
                 subscriptionCount, messageQueue, Receiver, Sender, rq, rmsg,
                 deferChan, starter, brokerVars, callerVars, reqVars,
                 histVars>>

\* case stopSig := <-service.stopQueue
RouterControl ==
  /\ rpc = "running"
  /\ stopQueue # <<>>
  /\ stopQueue' = Tail(stopQueue)
  /\ IF Head(stopQueue)
       THEN /\ rpc' = "exiting"
            /\ exitReason' = "stop"
            /\ UNCHANGED rq
       ELSE /\ rq' = messageQueue
            /\ UNCHANGED <<rpc, exitReason>>
  /\ UNCHANGED <<Connected, connection, channel, DoneSignal,
                 subscriptionCount, messageQueue, Receiver, Sender, rmsg,
                 deferChan, starter, brokerVars, callerVars, reqVars,
                 histVars>>

\* a feed is ready when it holds an event or the library has closed it
Ready(feed) == feed \in {"event", "closed"}

\* case connectionClosed := <-connCloseChan
RouterConnClosed ==
  /\ rpc = "running"
  /\ Ready(connCloseChan)
  /\ connCloseChan' = "closed"
  /\ rpc' = "exiting"
  /\ exitReason' = "connectionClose"
  /\ UNCHANGED <<svcVars, rq, rmsg, deferChan, starter, chanState,
                 queueDeclared, bindings, streams, channelCancelChan,
                 channelCloseChan, notifyChan, wire, nextUuid, callerVars,
                 reqVars, histVars>>

\* case channelClosed := <-channelCloseChan
RouterChannelClosed ==
  /\ rpc = "running"
  /\ Ready(channelCloseChan)
  /\ channelCloseChan' = "closed"
  /\ rpc' = "exiting"
  /\ exitReason' = "channelClose"
  /\ UNCHANGED <<svcVars, rq, rmsg, deferChan, starter, chanState,
                 queueDeclared, bindings, streams, connCloseChan,
                 channelCancelChan, notifyChan, wire, nextUuid, callerVars,
                 reqVars, histVars>>

\* case channelCanceled := <-channelCancelChan: a closed feed leaves the loop,
\* an event runs channelSetupFunc again and then leaves the loop
RouterChannelCanceled ==
  /\ rpc = "running"
  /\ Ready(channelCancelChan)
  /\ IF channelCancelChan = "closed"
       THEN /\ rpc' = "exiting"
            /\ exitReason' = "channelCancelClosed"
            /\ UNCHANGED channelCancelChan
       ELSE /\ rpc' = "setup"
            /\ exitReason' = "channelCancel"
            /\ channelCancelChan' = "empty"
  /\ UNCHANGED <<svcVars, rq, rmsg, deferChan, starter, chanState,
                 queueDeclared, bindings, streams, connCloseChan,
                 channelCloseChan, notifyChan, wire, nextUuid, callerVars,
                 reqVars, histVars>>

\* Message.send: the correlation id is the message's, or a fresh uuid
SendCorr(m) == IF m.corr = NoCorr THEN Uuid(nextUuid) ELSE m.corr

\* case m := <-service.Sender.<k>Chan: Encode, then send on service.channel.
\* A failed Encode drops the message; Publish fails on a closed channel.
RouterSend(k, encOk) ==
  /\ rpc = "running"
  /\ Sender[k] # <<>>
  /\ channel # 0
  /\ Sender' = [Sender EXCEPT ![k] = Tail(@)]
  /\ LET m == Head(Sender[k]) IN
       IF encOk
         THEN /\ nextUuid' = IF m.corr = NoCorr THEN nextUuid + 1 ELSE nextUuid
              /\ wire' = IF ChannelOpen /\ k = "request"
                           THEN wire \cup {[m EXCEPT !.corr = SendCorr(m)]}
                           ELSE wire
         ELSE UNCHANGED <<nextUuid, wire>>
  /\ rq' = messageQueue
  /\ UNCHANGED <<Connected, connection, channel, DoneSignal, stopQueue,
                 subscriptionCount, messageQueue, Receiver, rpc, rmsg,
                 deferChan, exitReason, starter, chanState, queueDeclared,
                 bindings, streams, connCloseChan, channelCancelChan,
                 channelCloseChan, notifyChan, callerVars, reqVars, histVars>>

\* the library closes a consumer's stream when the consumer is cancelled and
\* when its channel ends
StreamOpen(s) == streams[s].live /\ chanState[streams[s].chan] = "open"

\* case amqpMessage := <-service.Receiver.messageQueue, and its Ack.  The
\* library closes a stream when its channel closes; the router then leaves.
RouterRecv ==
  /\ rpc = "running"
  /\ rq # 0
  /\ IF streams[rq].q # <<>>
       THEN /\ rmsg' = Head(streams[rq].q)
            /\ streams' = [streams EXCEPT ![rq].q = Tail(@)]
            /\ acks' = Ack(acks, 0)
            /\ rpc' = "handle"
            /\ UNCHANGED exitReason
       ELSE /\ ~StreamOpen(rq)
            /\ rpc' = "exiting"
            /\ exitReason' = "streamClosed"
            /\ UNCHANGED <<rmsg, streams, acks>>
  /\ UNCHANGED <<svcVars, rq, deferChan, starter, chanState, queueDeclared,
                 bindings, connCloseChan, channelCancelChan, channelCloseChan,
                 notifyChan, wire, nextUuid, callerVars, reqVars, teardownLog,
                 doneLog, dials, brokerCalls, delivered>>

\* (mutant) only the request handler forwards
ForwardsRequestsOnly(k) == k = "request"

\* the inbound channel the router's handlers forward a decoded kind to
ForwardsTo(k) == k \in InKinds

\* DecodeAndHandle with the router's four handlers; a forward waits for room
RouterHandle ==
  /\ rpc = "handle"
  /\ IF ~DecodeError(rmsg) /\ ForwardsTo(DecodedKind(rmsg))
       THEN /\ Room(Receiver[DecodedKind(rmsg)], ChanCap)
            /\ Receiver' = [Receiver EXCEPT ![DecodedKind(rmsg)] = Append(@, rmsg)]
       ELSE UNCHANGED Receiver
  /\ rmsg' = NoMsg
  /\ rpc' = "running"
  /\ rq' = messageQueue
  /\ UNCHANGED <<Connected, connection, channel, DoneSignal, stopQueue,
                 subscriptionCount, messageQueue, Sender, deferChan,
                 exitReason, starter, brokerVars, callerVars, reqVars,
                 histVars>>

\* after the loop: service.DoneSignal <- true
RouterExit ==
  /\ rpc = "exiting"
  /\ Room(DoneSignal, DoneSignalCap)
  /\ DoneSignal' = Append(DoneSignal, TRUE)
  /\ doneLog' = Append(doneLog, TRUE)
  /\ teardownLog' = Append(teardownLog, "doneSignal")
  /\ rpc' = "deferred"
  /\ UNCHANGED <<Connected, connection, channel, stopQueue, subscriptionCount,
                 messageQueue, Receiver, Sender, rq, rmsg, deferChan,
                 exitReason, starter, brokerVars, callerVars, reqVars, dials,
                 brokerCalls, delivered, acks>>

\* connection.Close() ends every channel opened on the connection
ConnClosed(st) == IF st = "open" THEN "connClosed" ELSE st

\* the deferred calls, last registered first: QueueDelete on service.channel,
\* Close of the channel the defer statement captured, connection.Close()
RouterDeferred ==
  /\ rpc = "deferred"
  /\ channel # 0
  /\ teardownLog' = teardownLog \o <<"queueDelete", "channelClose",
                                      "connectionClose">>
  /\ queueDeclared' = FALSE
  /\ chanState' = [i \in PrimaryChans |->
                     IF i = deferChan /\ chanState[i] = "open" THEN "closed"
                     ELSE ConnClosed(chanState[i])]
  /\ rchan' = [c \in Calls |-> ConnClosed(rchan[c])]
  /\ connection' = "closed"
  /\ rpc' = "returned"
  /\ UNCHANGED <<Connected, channel, DoneSignal, stopQueue, subscriptionCount,
                 messageQueue, Receiver, Sender, rq, rmsg, deferChan,
                 exitReason, starter, bindings, streams, connCloseChan,
                 channelCancelChan, channelCloseChan, notifyChan, wire,
                 nextUuid, callerVars, cpc, cret, tpc, creq, qname, amqpReplyChan,
                 replyChanFull, timer, cmsg, doneLog, dials, brokerCalls,
                 delivered, acks>>

(***************************************************************************)
(* The broker and the remote parties.                                      *)
(***************************************************************************)
\* the application takes a message from RequestChan, AlertChan or InfoChan
ReadInbound(k) ==
  /\ Receiver[k] # <<>>
  /\ Receiver' = [Receiver EXCEPT ![k] = Tail(@)]
  /\ UNCHANGED <<Connected, connection, channel, DoneSignal, stopQueue,
                 subscriptionCount, messageQueue, Sender, runVars, brokerVars,
                 callerVars, reqVars, histVars>>

\* the broker closes the connection: the library reports it on the
\* connection's and the channel's NotifyClose feeds, closes the NotifyCancel
\* feed, and ends every channel of the connection
BrokerCloseConnection ==
  /\ connection = "open"
  /\ rpc \in {"running", "handle"}
  /\ connection' = "closed"
  /\ connCloseChan' = "event"
  /\ chanState' = [i \in PrimaryChans |-> ConnClosed(chanState[i])]
  /\ rchan' = [c \in Calls |-> ConnClosed(rchan[c])]
  /\ channelCloseChan' = IF notifyChan # 0 THEN "event" ELSE channelCloseChan
  /\ channelCancelChan' = IF notifyChan # 0 THEN "closed" ELSE channelCancelChan
  /\ UNCHANGED <<Connected, channel, DoneSignal, stopQueue, subscriptionCount,
                 messageQueue, Receiver, Sender, runVars, queueDeclared,
                 bindings, streams, notifyChan, wire, nextUuid, callerVars,
                 cpc, cret, tpc, creq, qname, amqpReplyChan, replyChanFull, timer,
                 cmsg, histVars>>

\* the broker cancels consumer s of the receive queue: the library reports the
\* consumer on the channel's NotifyCancel feed and closes its stream
BrokerCancel(s) ==
  /\ connection = "open"
  /\ s \in 1..Len(streams)
  /\ StreamOpen(s)
  /\ notifyChan = streams[s].chan
  /\ channelCancelChan = "empty"
  /\ channelCancelChan' = "event"
  /\ streams' = [streams EXCEPT ![s].live = FALSE]
  /\ UNCHANGED <<svcVars, runVars, chanState, queueDeclared, bindings,
                 connCloseChan, channelCloseChan, notifyChan, wire, nextUuid,
                 callerVars, reqVars, histVars>>

\* a remote publisher's message reaches the receive queue through one of its
\* bindings and the broker hands it to one of the queue's live consumers
BrokerDeliver(s, k) ==
  /\ bindings # {}
  /\ s \in 1..Len(streams)
  /\ StreamOpen(s)
  /\ delivered[0] < MaxDeliver
  /\ streams' = [streams EXCEPT ![s].q = Append(@, Msg(k, NoCorr, 0, "ok", 0))]
  /\ delivered' = [delivered EXCEPT ![0] = @ + 1]
  /\ UNCHANGED <<svcVars, runVars, chanState, queueDeclared, bindings,
                 connCloseChan, channelCancelChan, channelCloseChan,
                 notifyChan, wire, nextUuid, callerVars, reqVars, teardownLog,
                 doneLog, dials, brokerCalls, acks>>

(***************************************************************************)
(* SendRequest: the synchronous set-up, then the goroutine that waits for  *)
(* the reply.  Calls are numbered in the order they are made.              *)
(***************************************************************************)
\* (mutant) every reply queue is declared under one fixed name
DeclareReplyQueueFixed(c) == 1

\* replyChannel.QueueDeclare(""): the broker names the queue, a fresh name
\* for every declaration
DeclareReplyQueue(c) == c

\* SendRequest up to its first channel send.  `o` is the broker's answer to
\* connection.Channel(), QueueDeclare, QueueBind and Consume.
SendRequest(c, corr, timeout, o) ==
  /\ cpc[c] = "idle"
  /\ \A d \in Calls : d < c => cpc[d] # "idle"
  /\ Started
  /\ connection # "nil"
  /\ connection # "open" => o = "chanErr"
  /\ creq' = [creq EXCEPT
       ![c] = [corr |-> corr, timeout |-> timeout, broker |-> o]]
  /\ CASE o = "chanErr" ->
            /\ cpc' = [cpc EXCEPT ![c] = "report"]
            /\ UNCHANGED <<cret, rchan, qname>>
       [] o \in {"declareErr", "bindErr", "consumeErr"} ->
            /\ cpc' = [cpc EXCEPT ![c] = "returned"]
            /\ cret' = [cret EXCEPT ![c] = "error"]
            /\ rchan' = [rchan EXCEPT ![c] = "open"]
            /\ UNCHANGED qname
       [] o = "ok" ->
            /\ cpc' = [cpc EXCEPT ![c] = "enqueue"]
            /\ rchan' = [rchan EXCEPT ![c] = "open"]
            /\ qname' = [qname EXCEPT ![c] = DeclareReplyQueue(c)]
            /\ UNCHANGED cret
  /\ UNCHANGED <<svcVars, runVars, brokerVars, callerVars, tpc, amqpReplyChan,
                 replyChanFull, timer, cmsg, histVars>>

\* chanErr: service.DoneSignal <- true, then return with no channel, no error
SendRequestReport(c) ==
  /\ cpc[c] = "report"
  /\ Room(DoneSignal, DoneSignalCap)
  /\ DoneSignal' = Append(DoneSignal, TRUE)
  /\ doneLog' = Append(doneLog, TRUE)
  /\ cpc' = [cpc EXCEPT ![c] = "returned"]
  /\ cret' = [cret EXCEPT ![c] = "nothing"]
  /\ UNCHANGED <<Connected, connection, channel, stopQueue, subscriptionCount,
                 messageQueue, Receiver, Sender, runVars, brokerVars,
                 callerVars, tpc, creq, rchan, qname, amqpReplyChan,
                 replyChanFull, timer, cmsg, teardownLog, dials, brokerCalls,
                 delivered, acks>>

\* (mutant) `replyTimeout < 0` in place of `replyTimeout <= 0`
WaitsWithTimeoutFromZero(c) == creq[c].timeout >= 0

\* the goroutine's wait races a timer when replyTimeout is positive
WaitsWithTimeout(c) == creq[c].timeout > 0

\* service.Sender.requestChan <- toSend; make(chan Reply, 1); go func()
SendRequestEnqueue(c) ==
  /\ cpc[c] = "enqueue"
  /\ Room(Sender["request"], ChanCap)
  /\ Sender' = [Sender EXCEPT
       !["request"] = Append(@, Msg("request", creq[c].corr, qname[c], "ok", c))]
  /\ cpc' = [cpc EXCEPT ![c] = "returned"]
  /\ cret' = [cret EXCEPT ![c] = "channel"]
  /\ tpc' = [tpc EXCEPT ![c] = "wait"]
  /\ timer' = [timer EXCEPT ![c] = IF WaitsWithTimeout(c) THEN "armed" ELSE "off"]
  /\ UNCHANGED <<Connected, connection, channel, DoneSignal, stopQueue,
                 subscriptionCount, messageQueue, Receiver, runVars,
                 brokerVars, callerVars, creq, rchan, qname, amqpReplyChan,
                 replyChanFull, cmsg, histVars>>

\* the call's consumer is live: the broker may hand it deliveries
Consuming(c) == rchan[c] = "open" /\ creq[c].broker = "ok"

\* what a receive on the closed delivery channel yields: a zero Delivery
ZeroDelivery == Msg("garbage", NoCorr, 0, "none", 0)

\* amqpMessage = <-amqpReplyChan (alone, or as a case of the select), then
\* amqpMessage.Ack(false).  A closed channel yields the zero Delivery.
TaskRecv(c) ==
  /\ tpc[c] = "wait"
  /\ IF amqpReplyChan[c] # <<>>
       THEN /\ cmsg' = [cmsg EXCEPT ![c] = Head(amqpReplyChan[c])]
            /\ amqpReplyChan' = [amqpReplyChan EXCEPT ![c] = Tail(@)]
       ELSE /\ rchan[c] = "connClosed"
            /\ cmsg' = [cmsg EXCEPT ![c] = ZeroDelivery]
            /\ UNCHANGED amqpReplyChan
  /\ acks' = Ack(acks, c)
  /\ tpc' = [tpc EXCEPT ![c] = "decode"]
  /\ UNCHANGED <<svcVars, runVars, brokerVars, callerVars, cpc, cret, creq, rchan,
                 qname, replyChanFull, timer, teardownLog, doneLog, dials,
                 brokerCalls, delivered>>

\* case <-time.After(replyTimeout): the timer fires on the waiting select
TimerFire(c) ==
  /\ tpc[c] = "wait"
  /\ WaitsWithTimeout(c)
  /\ timer' = [timer EXCEPT ![c] = "fired"]
  /\ tpc' = [tpc EXCEPT ![c] = "timedout"]
  /\ UNCHANGED <<svcVars, runVars, brokerVars, callerVars, cpc, cret, creq, rchan,
                 qname, amqpReplyChan, replyChanFull, cmsg, histVars>>

\* (mutant) the timeout case sends its Reply and goes on waiting
TaskTimeoutKeepsWaiting(c) ==
  /\ tpc[c] = "timedout"
  /\ Room(replyChanFull[c], ReplyChanCap)
  /\ replyChanFull' = [replyChanFull EXCEPT
       ![c] = Append(@, PrepareReplyToRequest(creq[c], RCErrDripTimeout))]
  /\ tpc' = [tpc EXCEPT ![c] = "wait"]
  /\ UNCHANGED <<svcVars, runVars, brokerVars, callerVars, cpc, cret, creq,
                 rchan, qname, amqpReplyChan, timer, cmsg, histVars>>

\* replyChanFull <- PrepareReplyToRequest(toSend, RCErrDripTimeout, ...)
TaskTimeout(c) ==
  /\ tpc[c] = "timedout"
  /\ Room(replyChanFull[c], ReplyChanCap)
  /\ replyChanFull' = [replyChanFull EXCEPT
       ![c] = Append(@, PrepareReplyToRequest(creq[c], RCErrDripTimeout))]
  /\ tpc' = [tpc EXCEPT ![c] = "close"]
  /\ UNCHANGED <<svcVars, runVars, brokerVars, callerVars, cpc, cret, creq, rchan,
                 qname, amqpReplyChan, timer, cmsg, histVars>>

\* DecodeAndHandle with the goroutine's four handlers: only the reply handler
\* sends on replyChanFull; a decode error returns before the Close
TaskDecode(c) ==
  /\ tpc[c] = "decode"
  /\ IF DecodeError(cmsg[c])
       THEN /\ tpc' = [tpc EXCEPT ![c] = "returned"]
            /\ UNCHANGED replyChanFull
       ELSE /\ tpc' = [tpc EXCEPT ![c] = "close"]
            /\ IF DecodedKind(cmsg[c]) = "reply"
                 THEN /\ Room(replyChanFull[c], ReplyChanCap)
                      /\ replyChanFull' = [replyChanFull EXCEPT
                                             ![c] = Append(@, cmsg[c])]
                 ELSE UNCHANGED replyChanFull
  /\ UNCHANGED <<svcVars, runVars, brokerVars, callerVars, cpc, cret, creq, rchan,
                 qname, amqpReplyChan, timer, cmsg, histVars>>

\* replyChannel.Close()
TaskClose(c) ==
  /\ tpc[c] = "close"
  /\ rchan' = [rchan EXCEPT ![c] = IF @ = "open" THEN "closed" ELSE @]
  /\ tpc' = [tpc EXCEPT ![c] = "done"]
  /\ UNCHANGED <<svcVars, runVars, brokerVars, callerVars, cpc, cret, creq, qname,
                 amqpReplyChan, replyChanFull, timer, cmsg, histVars>>

\* the responder answers a published request: its Reply carries the request's
\* correlation id and is routed by the request's ReplyTo, the name of a reply
\* queue, to that queue's consumer
Respond(r, c) ==
  /\ r \in wire
  /\ wire' = wire \ {r}
  /\ IF qname[c] = r.replyTo /\ Consuming(c)
       THEN /\ delivered[c] < MaxQueue
            /\ amqpReplyChan' = [amqpReplyChan EXCEPT
                 ![c] = Append(@, Msg("reply", r.corr, 0, "ok", r.body))]
            /\ delivered' = [delivered EXCEPT ![c] = @ + 1]
       ELSE /\ \A d \in Calls : ~(qname[d] = r.replyTo /\ Consuming(d))
            /\ UNCHANGED <<amqpReplyChan, delivered>>
  /\ UNCHANGED <<svcVars, runVars, chanState, queueDeclared, bindings,
                 streams, connCloseChan, channelCancelChan, channelCloseChan,
                 notifyChan, nextUuid, callerVars, cpc, cret, tpc, creq, rchan,
                 qname, replyChanFull, timer, cmsg, teardownLog, doneLog,
                 dials, brokerCalls, acks>>

\* another publisher's message is routed to a reply queue: anything but a
\* Reply (Replies come from the responder), or a body that does not decode
StrayKinds == {"request", "alert", "info", "garbage"}

Stray(c, k) ==
  /\ Consuming(c)
  /\ delivered[c] < MaxQueue
  /\ amqpReplyChan' = [amqpReplyChan EXCEPT
       ![c] = Append(@, Msg(k, NoCorr, 0, "ok", 0))]
  /\ delivered' = [delivered EXCEPT ![c] = @ + 1]
  /\ UNCHANGED <<svcVars, runVars, brokerVars, callerVars, cpc, cret, tpc, creq,
                 rchan, qname, replyChanFull, timer, cmsg, teardownLog,
                 doneLog, dials, brokerCalls, acks>>

(***************************************************************************)
(* Specifications.  Each is the program with the environment of one        *)
(* scenario: the calls made on the service and the broker's answers.       *)
(***************************************************************************)
\* start-up against a broker that accepts the dial and every declaration
StartUp ==
  \/ StartService
  \/ StartServiceReturn
  \/ Dial(TRUE)
  \/ SetupOpen("ok")
  \/ SetupArm(TRUE)
  \/ SetupExchanges(TRUE)
  \/ Signal

\* SendRequest calls on a started service, with a responder and stray
\* deliveries on the reply queues
NextRequest ==
  \/ StartUp
  \/ \E c \in Calls : \E corr \in {NoCorr, c}, t \in Timeouts,
          o \in RequestOutcomes : SendRequest(c, corr, t, o)
  \/ \E c \in Calls : SendRequestReport(c)
  \/ \E c \in Calls : SendRequestEnqueue(c)
  \/ \E c \in Calls : TaskRecv(c)
  \/ \E c \in Calls : TimerFire(c)
  \/ \E c \in Calls : TaskTimeout(c)
  \/ \E c \in Calls : TaskDecode(c)
  \/ \E c \in Calls : TaskClose(c)
  \/ \E encOk \in BOOLEAN : RouterSend("request", encOk)
  \/ \E r \in wire, c \in Calls : Respond(r, c)
  \/ \E c \in Calls, k \in StrayKinds : Stray(c, k)

SpecRequest == Init /\ [][NextRequest]_vars

(***************************************************************************)
(* Properties of SendRequest, checked under SpecRequest.                   *)
(***************************************************************************)
\* the goroutine of call c has ended: after the Close, or by the early return
TaskEnded(c) == tpc[c] \in {"done", "returned"}

\* C1: a SendRequest call with a positive timeout whose set-up succeeded puts
\* exactly one Reply on its result channel, whatever was delivered to its
\* reply queue: once its goroutine has ended the channel holds one Reply.
C1_ExactlyOneReply ==
  \A c \in Calls :
    (cret[c] = "channel" /\ creq[c].timeout > 0 /\ TaskEnded(c))
      => Len(replyChanFull[c]) = 1

\* C2: with a timeout <= 0 no timeout Reply is synthesized: the timer never
\* fires, and a value on the result channel is the delivery the goroutine
\* received from its consumer, acknowledged and decoded as a Reply.
C2_NoSpontaneousReply ==
  \A c \in Calls :
    creq[c].timeout <= 0 =>
      /\ timer[c] # "fired"
      /\ tpc[c] # "timedout"
      /\ \A i \in DOMAIN replyChanFull[c] :
           /\ replyChanFull[c][i].rc # RCErrDripTimeout
           /\ replyChanFull[c][i] = cmsg[c]
           /\ cmsg[c].kind = "reply"
           /\ acks[c] = 1
           /\ delivered[c] >= 1

\* a call with timeout <= 0 was answered
C2_Witness ==
  \E c \in Calls : creq[c].timeout <= 0 /\ Len(replyChanFull[c]) = 1

\* C3: when the timer of a call fires with no delivery taken, the result
\* channel gets exactly one Reply, only after the timer fired; the Reply has
\* the timeout code and the request's correlation id; and the goroutine takes
\* no delivery from the reply queue afterwards.
C3_TimeoutReply ==
  \A c \in Calls :
    /\ timer[c] = "fired" =>
         /\ creq[c].timeout > 0
         /\ tpc[c] \in {"timedout", "close", "done"}
         /\ tpc[c] = "timedout" => replyChanFull[c] = <<>>
         /\ tpc[c] \in {"close", "done"} =>
              replyChanFull[c] =
                <<Msg("reply", creq[c].corr, 0, RCErrDripTimeout, 0)>>
         /\ acks[c] = 0
         /\ cmsg[c] = NoMsg
         /\ Len(amqpReplyChan[c]) = delivered[c]
    /\ \A i \in DOMAIN replyChanFull[c] :
         replyChanFull[c][i].rc = RCErrDripTimeout => timer[c] = "fired"

\* a call timed out and ended while a delivery sits unread on its consumer
C3_Witness ==
  \E c \in Calls :
    /\ timer[c] = "fired"
    /\ tpc[c] = "done"
    /\ Len(replyChanFull[c]) = 1
    /\ amqpReplyChan[c] # <<>>

\* C4: a Reply handed to the result channel of call a is a's own timeout
\* Reply or the answer to a's own request, and when a and b carry distinct
\* correlation ids it never carries b's.
C4_NoCrossDelivery ==
  \A a \in Calls : \A i \in DOMAIN replyChanFull[a] :
    LET reply == replyChanFull[a][i] IN
      /\ \/ reply = Msg("reply", creq[a].corr, 0, RCErrDripTimeout, 0)
         \/ reply.body = a /\ reply.rc = "ok"
      /\ creq[a].corr # NoCorr => reply.corr = creq[a].corr
      /\ \A b \in Calls \ {a} :
           (cpc[b] # "idle" /\ creq[a].corr # creq[b].corr)
             => reply.corr # creq[b].corr

\* two calls with distinct correlation ids both hold their answer
C4_Witness ==
  \E a, b \in Calls :
    /\ a # b
    /\ creq[a].corr # creq[b].corr
    /\ Len(replyChanFull[a]) = 1 /\ replyChanFull[a][1].rc = "ok"
    /\ Len(replyChanFull[b]) = 1 /\ replyChanFull[b][1].rc = "ok"

\* C5: whenever a set-up step of SendRequest fails, the call returns a
\* non-nil error.
C5_SetupFailureReturnsError ==
  \A c \in Calls :
    (cpc[c] = "returned" /\ creq[c].broker # "ok") => cret[c] = "error"

\* C6: the reply channel a SendRequest call opened is closed on every exit
\* path: after the call has failed, or its goroutine has ended, the channel
\* is not left open.
C6_ReplyChannelClosed ==
  \A c \in Calls :
    (cret[c] = "error" \/ TaskEnded(c)) => rchan[c] # "open"

(***************************************************************************)
(* Subscribe* calls at any moment of a start-up that may fail to dial, with *)
(* a remote publisher and the router servicing the deliveries.             *)
(***************************************************************************)
NextSubscribe ==
  \/ StartService
  \/ StartServiceReturn
  \/ \E ok \in BOOLEAN : Dial(ok)
  \/ SetupOpen("ok")
  \/ SetupArm(TRUE)
  \/ SetupExchanges(TRUE)
  \/ Signal
  \/ \E k \in InKinds, bindOk, consumeOk \in BOOLEAN :
       Subscribe(k, bindOk, consumeOk)
  \/ SubscribeReport
  \/ SubscribeSentinel
  \/ \E s \in 1..MaxSubs, k \in BodyKinds : BrokerDeliver(s, k)
  \/ RouterControl
  \/ RouterRecv
  \/ RouterHandle
  \/ \E k \in InKinds : ReadInbound(k)

SpecSubscribe == Init /\ [][NextSubscribe]_vars

\* C7: a Subscribe* call on a service that has never connected returns the
\* "not connected" error at once, makes no QueueBind and no Consume call,
\* leaves the subscription count and the stream handle as they were, and
\* sends nothing on the control channel (nor on DoneSignal).
C7_NotConnected ==
  [][(nSubs' = nSubs + 1 /\ ~Connected) =>
       /\ subRet' = "notConnected"
       /\ subpc' = "idle"
       /\ UNCHANGED <<brokerCalls, bindings, streams, subscriptionCount,
                      messageQueue, stopQueue, DoneSignal>>]_vars

\* a Subscribe* call was refused after both dials had failed
C7_Witness ==
  /\ subRet = "notConnected"
  /\ ~Connected
  /\ dials = 2
  /\ rpc = "returned"

\* the router is in its loop
RouterLive == rpc \in {"running", "handle"}

\* stream s holds a delivery, and s is neither the stream the router's select
\* waits on nor the handle its next iteration will read
Stranded(s) == streams[s].q # <<>> /\ s # rq /\ s # messageQueue

\* C8: with zero subscriptions nothing is consumed; once a Subscribe* call's
\* Consume was granted the service holds a stream; and a later Subscribe* call
\* leaves every delivery already handed to the service within the router's
\* reach: no stream holding a delivery is abandoned while the router runs.
C8_SubscribeKeepsDeliveries ==
  /\ subscriptionCount = 0 => (streams = <<>> /\ messageQueue = 0)
  /\ (subscriptionCount > 0 /\ streams # <<>>) => messageQueue # 0
  /\ RouterLive => \A s \in DOMAIN streams : ~Stranded(s)

(***************************************************************************)
(* Stop() on a started service whose callers subscribe and send and whose  *)
(* broker delivers; the router and the application are scheduled fairly.   *)
(***************************************************************************)
NextStop ==
  \/ StartUp
  \/ \E k \in InKinds, consumeOk \in BOOLEAN : Subscribe(k, TRUE, consumeOk)
  \/ SubscribeReport
  \/ SubscribeSentinel
  \/ Stop
  \/ \E k \in OutKinds : Send(k)
  \/ \E k \in OutKinds, encOk \in BOOLEAN : RouterSend(k, encOk)
  \/ \E s \in 1..MaxSubs, k \in BodyKinds : BrokerDeliver(s, k)
  \/ RouterControl
  \/ RouterRecv
  \/ RouterHandle
  \/ \E k \in InKinds : ReadInbound(k)
  \/ RouterExit
  \/ RouterDeferred

\* the goroutines are scheduled; a select whose stop case is ready again and
\* again takes it; the application keeps reading its inbound channels
FairStop ==
  /\ WF_vars(StartUp)
  /\ WF_vars(SubscribeReport)
  /\ WF_vars(SubscribeSentinel)
  /\ SF_vars(RouterControl)
  /\ WF_vars(RouterHandle)
  /\ WF_vars(\E k \in InKinds : ReadInbound(k))
  /\ WF_vars(RouterExit)
  /\ WF_vars(RouterDeferred)

SpecStop == Init /\ [][NextStop]_vars /\ FairStop

\* the deferred calls have run: queue deleted, channel and connection closed
TornDown ==
  /\ rpc = "returned"
  /\ ~queueDeclared
  /\ chanState[deferChan] # "open"
  /\ connection = "closed"

\* C9: after Stop() on a started service the router eventually leaves its
\* loop by the stop case and the service is eventually torn down.
C9_StopTearsDown == (nStops > 0) ~> (exitReason = "stop" /\ TornDown)

(***************************************************************************)
(* The broker closes the connection of a running service.                  *)
(***************************************************************************)
NextClose ==
  \/ StartUp
  \/ \E k \in InKinds : Subscribe(k, TRUE, TRUE)
  \/ SubscribeSentinel
  \/ \E k \in OutKinds : Send(k)
  \/ \E k \in OutKinds, encOk \in BOOLEAN : RouterSend(k, encOk)
  \/ \E s \in 1..MaxSubs, k \in BodyKinds : BrokerDeliver(s, k)
  \/ BrokerCloseConnection
  \/ RouterControl
  \/ RouterConnClosed
  \/ RouterChannelClosed
  \/ RouterChannelCanceled
  \/ RouterRecv
  \/ RouterHandle
  \/ \E k \in InKinds : ReadInbound(k)
  \/ RouterExit
  \/ RouterDeferred

SpecClose == Init /\ [][NextClose]_vars

\* the broker has closed the connection
BrokerClosed == connCloseChan # "empty"

\* C10: once the broker has closed the connection and the router has reacted
\* to it by leaving its loop, the service's Connected flag is false.
C10_ConnectedFalseAfterClose ==
  (BrokerClosed /\ rpc \in {"exiting", "deferred", "returned"}) => ~Connected

(***************************************************************************)
(* Start-up against a broker that may refuse the dial and any declaration, *)
(* followed by sends and a Stop on whatever the start produced.            *)
(***************************************************************************)
NextStart ==
  \/ StartService
  \/ StartServiceReturn
  \/ \E ok \in BOOLEAN : Dial(ok)
  \/ \E o \in SetupOutcomes : SetupOpen(o)
  \/ SetupArm(TRUE)
  \/ \E ok \in BOOLEAN : SetupExchanges(ok)
  \/ SetupReport
  \/ Signal
  \/ Stop
  \/ \E k \in OutKinds : Send(k)
  \/ \E k \in OutKinds, encOk \in BOOLEAN : RouterSend(k, encOk)
  \/ RouterControl
  \/ RouterExit
  \/ RouterDeferred

SpecStart == Init /\ [][NextStart]_vars

\* both dials have failed
DialsFailed == dials = 2 /\ ~Connected

\* C11: at most two dials are made; when both fail, exactly one value, true,
\* is placed on DoneSignal, the goroutine returns without any channel, queue
\* or exchange call and without entering the loop, Connected stays false,
\* and the start call reports the failure to its caller as an error.
C11_DialFailure ==
  /\ dials <= 2
  /\ DialsFailed =>
       /\ doneLog = <<TRUE>>
       /\ rpc = "returned"
       /\ channel = 0
       /\ \A i \in PrimaryChans : chanState[i] = "unopened"
       /\ ~queueDeclared
       /\ notifyChan = 0
       /\ teardownLog = <<>>
       /\ Started => StartServiceResult(starter = "failed") = "error"

\* a step of the initial channelSetupFunc failed: the first value ever placed
\* on DoneSignal by a connected service is true
SetupFailed == Connected /\ doneLog # <<>> /\ Head(doneLog)

\* C12: when the initial channel set-up fails, the failure value is the only
\* value ever placed on DoneSignal and the router's loop is never entered.
C12_SetupFailureAborts ==
  SetupFailed =>
    /\ doneLog = <<TRUE>>
    /\ rpc \notin {"running", "handle", "exiting", "deferred"}

(***************************************************************************)
(* Callers enqueue outbound messages while the router sends, is stopped    *)
(* and tears the service down.  The calls wait for no reply.               *)
(***************************************************************************)
NextEnqueue ==
  \/ StartUp
  \/ \E c \in Calls : SendRequest(c, NoCorr, 0, "ok")
  \/ \E c \in Calls : SendRequestEnqueue(c)
  \/ \E k \in OutKinds : Send(k)
  \/ \E k \in OutKinds, encOk \in BOOLEAN : RouterSend(k, encOk)
  \/ Stop
  \/ RouterControl
  \/ RouterExit
  \/ RouterDeferred

SpecEnqueue == Init /\ [][NextEnqueue]_vars

\* C13: the enqueue step never makes its caller wait: whenever a SendRequest
\* call stands at `service.Sender.requestChan <- toSend`, the channel has
\* room.  (SendReply, SendAlert and SendInfo are the same statement on their
\* own channel.)
C13_EnqueueNeverBlocks ==
  \A c \in Calls : cpc[c] = "enqueue" => Room(Sender["request"], ChanCap)

(***************************************************************************)
(* Properties of the router's exit.                                        *)
(***************************************************************************)
\* C14: on every exit from the router the receive queue is deleted, then the
\* channel is closed, then the connection is closed, and only then is true
\* placed on DoneSignal: the exit's send is the fourth step of the teardown.
C14_TeardownOrder ==
  \A i \in DOMAIN teardownLog :
    teardownLog[i] = "doneSignal" =>
      /\ i = 4
      /\ SubSeq(teardownLog, 1, 3) =
           <<"queueDelete", "channelClose", "connectionClose">>

\* C15: once the router has left its loop the teardown eventually runs,
\* whatever DoneSignal holds.
C15_TeardownRuns == (rpc = "exiting") ~> TornDown

(***************************************************************************)
(* Deliveries of every kind reach the router of a subscribed service and   *)
(* the goroutine of a SendRequest call that waits without a timeout.       *)
(***************************************************************************)
NextAck ==
  \/ StartUp
  \/ Subscribe("request", TRUE, TRUE)
  \/ SubscribeSentinel
  \/ \E s \in 1..MaxSubs, k \in BodyKinds : BrokerDeliver(s, k)
  \/ RouterControl
  \/ RouterRecv
  \/ RouterHandle
  \/ \E k \in InKinds : ReadInbound(k)
  \/ SendRequest(1, NoCorr, 0, "ok")
  \/ SendRequestEnqueue(1)
  \/ RouterSend("request", TRUE)
  \/ \E r \in wire : Respond(r, 1)
  \/ \E k \in StrayKinds : Stray(1, k)
  \/ TaskRecv(1)
  \/ TaskDecode(1)
  \/ TaskClose(1)

SpecAck == Init /\ [][NextAck]_vars

\* deliveries waiting on the first n consumer streams of the receive queue
RECURSIVE Backlog(_)
Backlog(n) == IF n = 0 THEN 0 ELSE Len(streams[n].q) + Backlog(n - 1)

\* deliveries consumer c has taken from its stream
Taken(c) ==
  IF c = 0 THEN delivered[0] - Backlog(Len(streams))
  ELSE delivered[c] - Len(amqpReplyChan[c])

\* C16: every delivery taken by the router or by a SendRequest goroutine is
\* acknowledged exactly once, in the step that takes it and so before it is
\* decoded, whatever it then decodes to: in every state, also while a
\* delivery awaits its decoding and after a decoding failed, the number of
\* Ack calls of a consumer is the number of deliveries it has taken.
C16_AckOncePerDelivery ==
  \A c \in Consumers : acks[c] = Taken(c)

\* the router has taken and handled two deliveries and the goroutine has
\* returned on a delivery that did not decode
C16_Witness ==
  /\ acks[0] = 2
  /\ rpc = "running"
  /\ acks[1] = 1
  /\ tpc[1] = "returned"

\* C17: the router's handling of a delivery enqueues it once on the inbound
\* channel of its kind (Request, Alert, Info) and on no other, enqueues a
\* Reply or an undecodable delivery nowhere, and in every case leaves the
\* router running.
C17_ForwardByKind ==
  [][(rpc = "handle" /\ rpc' # "handle") =>
       /\ rpc' = "running"
       /\ IF rmsg.kind \in InKinds
            THEN Receiver' = [Receiver EXCEPT ![rmsg.kind] = Append(@, rmsg)]
            ELSE Receiver' = Receiver]_vars

\* the router has handled two deliveries and runs: an Alert, which sits on
\* AlertChan alone, and a Reply or undecodable one
C17_Witness ==
  /\ rpc = "running"
  /\ acks[0] = 2
  /\ delivered[0] = 2
  /\ Len(Receiver["alert"]) = 1
  /\ Receiver["request"] = <<>>
  /\ Receiver["info"] = <<>>
  /\ nSubs = 1

(***************************************************************************)
(* The broker cancels a consumer of a subscribed service: the router runs  *)
(* channelSetupFunc again, against a broker that may refuse any step.      *)
(***************************************************************************)
\* channelSetupFunc as the channel-cancel case calls it
ReSetup ==
  \/ \E o \in SetupOutcomes : exitReason = "channelCancel" /\ SetupOpen(o)
  \/ \E consumeOk \in BOOLEAN :
       exitReason = "channelCancel" /\ SetupArm(consumeOk)
  \/ SetupArmReport
  \/ SetupSentinel
  \/ \E ok \in BOOLEAN : exitReason = "channelCancel" /\ SetupExchanges(ok)
  \/ SetupReport

NextCancel ==
  \/ StartUp
  \/ \E k \in InKinds : Subscribe(k, TRUE, TRUE)
  \/ SubscribeSentinel
  \/ \E s \in 1..MaxSubs : BrokerCancel(s)
  \/ RouterControl
  \/ RouterChannelCanceled
  \/ RouterRecv
  \/ ReSetup
  \/ RouterExit
  \/ RouterDeferred

\* the router's goroutine and the Subscribe* caller are scheduled
FairCancel ==
  /\ WF_vars(StartUp)
  /\ WF_vars(SubscribeSentinel)
  /\ WF_vars(ReSetup)
  /\ WF_vars(RouterExit)
  /\ WF_vars(RouterDeferred)

SpecCancel == Init /\ [][NextCancel]_vars /\ FairCancel

\* C18: once the router has taken a channel-cancel event it runs the channel
\* set-up again and then tears the service down, whether the set-up
\* succeeded or failed.
C18_CancelTearsDown == (exitReason = "channelCancel") ~> TornDown

\* primary channels that are open on the broker
LiveChannels == {i \in PrimaryChans : chanState[i] = "open"}

\* C19: at most one primary channel is live at any time, and once the router
\* has returned every primary channel the service opened has been closed by
\* a Close call of its own.
C19_OneLiveChannel ==
  /\ Cardinality(LiveChannels) <= 1
  /\ (Connected /\ rpc = "returned") =>
       \A i \in PrimaryChans : chanState[i] \in {"unopened", "closed"}

\* C20: a service that holds a delivery stream has a positive subscription
\* count; beginConsuming with a count of zero makes no Consume call, leaves
\* the handle alone and sends nothing on the control channel or DoneSignal;
\* and a Subscribe* call whose QueueBind fails leaves the count unchanged.
C20_HandleImpliesSubscription ==
  [][/\ messageQueue' # 0 => subscriptionCount' > 0
     /\ (rpc = "setupArm" /\ rpc' # "setupArm" /\ subscriptionCount = 0) =>
          /\ rpc' = "setupExchanges"
          /\ UNCHANGED <<brokerCalls, streams, messageQueue, stopQueue,
                         DoneSignal>>
     /\ (nSubs' # nSubs /\ subRet' = "bindErr") =>
          UNCHANGED <<subscriptionCount, messageQueue, streams>>]_vars

\* after a start with no subscription and one granted Subscribe* call, a
\* second call's QueueBind has failed
C20_Witness ==
  /\ rpc = "running"
  /\ nSubs = 2
  /\ subRet = "bindErr"
  /\ subscriptionCount = 1
  /\ messageQueue = 1

(***************************************************************************)
(* Blocking sends of the router outside its select.                        *)
(***************************************************************************)
\* C21: outside its select the router never waits: a forward finds room on
\* the inbound channel, the sentinel of a re-setup finds room on the control
\* channel, and every send on DoneSignal finds room.
C21_RouterNeverWaits ==
  /\ (rpc = "handle" /\ ~DecodeError(rmsg) /\ ForwardsTo(DecodedKind(rmsg)))
       => Room(Receiver[DecodedKind(rmsg)], ChanCap)
  /\ rpc = "setupSentinel" => Room(stopQueue, StopQueueCap)
  /\ rpc \in {"exiting", "setupReport", "setupArmReport"}
       => Room(DoneSignal, DoneSignalCap)

(***************************************************************************)
(* Subscribe* calls whose Consume is granted, a publisher, and the router  *)
(* and the application scheduled fairly.                                   *)
(***************************************************************************)
NextSentinel ==
  \/ StartUp
  \/ \E k \in InKinds : Subscribe(k, TRUE, TRUE)
  \/ SubscribeSentinel
  \/ \E s \in 1..MaxSubs, k \in BodyKinds : BrokerDeliver(s, k)
  \/ RouterControl
  \/ RouterRecv
  \/ RouterHandle
  \/ \E k \in InKinds : ReadInbound(k)

\* the goroutines are scheduled, a select takes a case that is ready again
\* and again, and the application keeps reading its inbound channels
FairSentinel ==
  /\ WF_vars(StartUp)
  /\ WF_vars(SubscribeSentinel)
  /\ SF_vars(RouterControl)
  /\ SF_vars(RouterRecv)
  /\ WF_vars(RouterHandle)
  /\ WF_vars(\E k \in InKinds : ReadInbound(k))

SpecSentinel == Init /\ [][NextSentinel]_vars /\ FairSentinel

\* stream s is the service's handle and holds a delivery
Armed(s) == s \in DOMAIN streams /\ messageQueue = s /\ streams[s].q # <<>>

C23_ReportNeverBlocks ==
  \A c \in Calls : cpc[c] = "report" => Room(DoneSignal, DoneSignalCap)

\* C24: a Subscribe* call on a connected service always returns: whenever it
\* stands at beginConsuming's send on DoneSignal or on the control channel,
\* that channel has room.
C24_SubscribeNeverBlocks ==
  /\ subpc = "report" => Room(DoneSignal, DoneSignalCap)
  /\ subpc = "sentinel" => Room(stopQueue, StopQueueCap)

====
